---- MODULE Spec2Model ----
(***************************************************************************)
(* A model of the self-contained algorithmic parts of speechbox:           *)
(*   - preprocess/transformations.py: partition_into_sequences,            *)
(*     speech_dataset_to_utterances, files_to_features,                    *)
(*     dataset_split_samples, dataset_split_samples_by_speaker;            *)
(*   - commands/e2e.py: Train.extract_features (selection of the paths).   *)
(* Every function is a small state machine of its own; a specification    *)
(* runs one of them and leaves the variables of the others untouched.      *)
(***************************************************************************)
EXTENDS Integers, Sequences, FiniteSets, TLC

VARIABLES
    \* partition_into_sequences
    data, sequence_length, resized, seq_pc,
    \* dataset_split_samples and dataset_split_samples_by_speaker
    split_fn, samples, parse_speaker_id, validation_ratio, test_ratio,
    training_part, validation_part, test_part, split, split_pc,
    \* speech_dataset_to_utterances and files_to_features
    entry, labels, wavfiles, utterance_length_ms, utterance_offset_ms,
    slide_over_all, i, wav, label_to_wav, yielded, utt_pc,
    ftf_i, ftf_yielded, ftf_pc,
    \* Train.extract_features
    utt2path_rows, utt2label_rows, file_limit, shuffle_file_list,
    utt2path, utt2label, order, keys, next_key, paths, paths_meta, num_dropped, train_pc

seqVars == <<data, sequence_length, resized, seq_pc>>
splitVars == <<split_fn, samples, parse_speaker_id, validation_ratio, test_ratio,
               training_part, validation_part, test_part, split, split_pc>>
uttInputs == <<entry, labels, wavfiles, utterance_length_ms, utterance_offset_ms,
               slide_over_all>>
genVars == <<i, wav, label_to_wav, yielded, utt_pc>>
ftfVars == <<ftf_i, ftf_yielded, ftf_pc>>
uttVars == <<uttInputs, genVars, ftfVars>>
trainInputs == <<utt2path_rows, utt2label_rows, file_limit, shuffle_file_list>>
trainVars == <<trainInputs, utt2path, utt2label, order, keys, next_key, paths, paths_meta,
               num_dropped, train_pc>>
vars == <<seqVars, splitVars, uttVars, trainVars>>
notSeq == <<splitVars, uttVars, trainVars>>
notSplit == <<seqVars, uttVars, trainVars>>
notUtt == <<seqVars, splitVars, trainVars>>
notTrain == <<seqVars, splitVars, uttVars>>

(***************************************************************************)
(* Generic helpers.                                                        *)
(***************************************************************************)
Range(s) == {s[k] : k \in 1..Len(s)}

\* All sequences over S of length 0..n.
SeqsUpTo(S, n) == UNION {[1..k -> S] : k \in 0..n}

\* Python's s[:k] and s[k:] for 0 <= k.
Take(s, k) == SubSeq(s, 1, IF k < Len(s) THEN k ELSE Len(s))
Drop(s, k) == SubSeq(s, (IF k < Len(s) THEN k ELSE Len(s)) + 1, Len(s))

(***************************************************************************)
(* partition_into_sequences(data, sequence_length).                        *)
(* A numpy array is its shape and its buffer in row-major (C) order.       *)
(***************************************************************************)
MaxRows == 3
MaxCols == 2
MaxSeqLen == 3
\* Element values; 0.0 is also what ndarray.resize pads with.
DataValues == {0, 1}

RECURSIVE Prod(_)
Prod(shape) == IF shape = <<>> THEN 1 ELSE Head(shape) * Prod(Tail(shape))

Arrays2D ==
    UNION {{[shape |-> <<n, d>>, flat |-> f] : f \in [1..(n * d) -> DataValues]} :
           n \in 0..MaxRows, d \in 0..MaxCols}
Arrays1D ==
    UNION {{[shape |-> <<n>>, flat |-> f] : f \in [1..n -> DataValues]} : n \in 0..1}

ndim(a) == Len(a.shape)

\* data.copy(): a fresh C-contiguous array with the same shape and elements.
Copy(a) == [shape |-> a.shape, flat |-> a.flat]

\* numpy.resize(a, shape), the function: fills the new buffer with repeated
\* copies of the old one instead of zeros.
ResizeRepeating(a, newshape) ==
    [shape |-> newshape,
     flat  |-> [k \in 1..Prod(newshape) |->
                   IF Len(a.flat) = 0 THEN 0
                   ELSE a.flat[((k - 1) % Len(a.flat)) + 1]]]

\* ndarray.resize(shape), in place: the buffer is kept in row-major order,
\* truncated or extended with zeros to the new size.
Resize(a, newshape) ==
    [shape |-> newshape,
     flat  |-> [k \in 1..Prod(newshape) |->
                   IF k <= Len(a.flat) THEN a.flat[k] ELSE 0]]

\* Rounding the number of sequences down: the last, partial sequence is lost.
NumSequencesFloor(n, L) == n \div L

\* num_sequences = (data.shape[0] + sequence_length - 1) // sequence_length
NumSequences(n, L) == (n + L - 1) \div L

\* Element [s][r][c] of a 3-D array and element [i][c] of a 2-D array
\* (all indices from 0, as in the source).
At3(a, s, r, c) == a.flat[(s * a.shape[2] + r) * a.shape[3] + c + 1]
At2(a, row, c) == a.flat[row * a.shape[2] + c + 1]

SeqInit ==
    /\ data \in Arrays2D \cup Arrays1D
    /\ sequence_length \in 0..MaxSeqLen
    /\ resized = [shape |-> <<>>, flat |-> <<>>]
    /\ seq_pc = "call"

SeqIdle ==
    /\ data = [shape |-> <<>>, flat |-> <<>>]
    /\ sequence_length = 0
    /\ resized = [shape |-> <<>>, flat |-> <<>>]
    /\ seq_pc = "idle"

\* The assert on line 24 fails.
PartitionAssertFails ==
    /\ seq_pc = "call"
    /\ ndim(data) # 2
    /\ seq_pc' = "AssertionError"
    /\ UNCHANGED <<data, sequence_length, resized, notSeq>>

\* Integer division by a sequence_length of zero on line 25.
PartitionZeroDivision ==
    /\ seq_pc = "call"
    /\ ndim(data) = 2
    /\ sequence_length = 0
    /\ seq_pc' = "ZeroDivisionError"
    /\ UNCHANGED <<data, sequence_length, resized, notSeq>>

partition_into_sequences ==
    /\ seq_pc = "call"
    /\ ndim(data) = 2
    /\ sequence_length # 0
    /\ LET num_sequences == NumSequences(data.shape[1], sequence_length)
       IN resized' = Resize(Copy(data),
                            <<num_sequences, sequence_length, data.shape[2]>>)
    /\ seq_pc' = "return"
    /\ UNCHANGED <<data, sequence_length, notSeq>>

SeqNext ==
    \/ PartitionAssertFails
    \/ PartitionZeroDivision
    \/ partition_into_sequences

\* ceil(n / L) for L >= 1, defined by its property rather than by a formula.
Ceil(n, L) == CHOOSE q \in 0..n : q * L >= n /\ (q - 1) * L < n

(* C3: for a 2-D input with n rows and d columns and sequence_length L >= 1
   the result has shape (ceil(n / L), L, d), its buffer has exactly that
   many elements, and its total number of rows is at least n and less
   than n + L. *)
C3_Shape ==
    (seq_pc = "return" /\ sequence_length >= 1) =>
        LET n == data.shape[1]
            d == data.shape[2]
            L == sequence_length
        IN /\ resized.shape = <<Ceil(n, L), L, d>>
           /\ Len(resized.flat) = Ceil(n, L) * L * d
           /\ resized.shape[1] * resized.shape[2] >= n
           /\ resized.shape[1] * resized.shape[2] < n + L

\* A result whose last sequence is partly padding.
C3_Witness ==
    /\ seq_pc = "return"
    /\ data.shape = <<3, 2>>
    /\ sequence_length = 2
    /\ resized.shape = <<2, 2, 2>>

(* C4: every input row is row (row mod L) of sequence (row div L) of the
   result, and every row of the result at flat position >= n is all zeros;
   hence the sums of squares (the squared norms) agree. *)
RECURSIVE SumSquares(_)
SumSquares(f) == IF f = <<>> THEN 0 ELSE Head(f) * Head(f) + SumSquares(Tail(f))

C4_RowsKeptZeroPadded ==
    (seq_pc = "return" /\ sequence_length >= 1) =>
        LET n == data.shape[1]
            d == data.shape[2]
            L == sequence_length
        IN /\ \A row \in 0..(n - 1) : \A c \in 0..(d - 1) :
                  At3(resized, row \div L, row % L, c) = At2(data, row, c)
           /\ \A p \in n..(resized.shape[1] * L - 1) : \A c \in 0..(d - 1) :
                  At3(resized, p \div L, p % L, c) = 0
           /\ SumSquares(resized.flat) = SumSquares(data.flat)

\* Three non-zero rows, sequences of two rows: the fourth row is padding.
C4_Witness ==
    /\ seq_pc = "return"
    /\ data.shape = <<3, 2>>
    /\ \A k \in 1..6 : data.flat[k] = 1
    /\ sequence_length = 2
    /\ Len(resized.flat) = 8

(***************************************************************************)
(* dataset_split_samples and dataset_split_samples_by_speaker.             *)
(* A sample is a tuple whose first element names the utterance; ratios are *)
(* percentages, so that a test_size is the exact fraction p / q.           *)
(***************************************************************************)
MaxSamples == 4
Names == {"u1", "u2", "u3", "u4"}
SpeakerIds == {"A", "B", "C"}
Samples == {<<nm, "en">> : nm \in Names}
\* (validation_ratio, test_ratio) in percent: the defaults and a larger pair.
Ratios == {<<10, 10>>, <<25, 50>>}

Perms(n) == {p \in [1..n -> 1..n] : \A a, b \in 1..n : a # b => p[a] # p[b]}

\* list(set(...)): the distinct elements in some order.
ListOfSet(S) == CHOOSE s \in [1..Cardinality(S) -> S] : Range(s) = S

\* sklearn's sizes for test_size = p / q: n_test = ceil(test_size * n) and
\* n_train = n - n_test.  For the ratios and list lengths used here the
\* floating-point product rounds up to the same integer as the exact one.
NumTest(n, p, q) == (p * n + q - 1) \div q
\* train_test_split raises ValueError for a test_size outside (0, 1) and for
\* an empty training set.
SplitRaises(n, p, q) == ~(0 < p /\ p < q) \/ n - NumTest(n, p, q) = 0

\* train_test_split(xs, test_size = p / q) for the drawn permutation perm:
\* the first n_test shuffled elements are the test set, the rest the
\* training set.
TrainTestSplit(xs, p, q, perm) ==
    LET n == Len(xs)
        n_test == NumTest(n, p, q)
    IN [test  |-> [k \in 1..n_test |-> xs[perm[k]]],
        train |-> [k \in 1..(n - n_test) |-> xs[perm[n_test + k]]]]

\* Splitting the validation set off the whole data set once more.
ValidationSourceWhole(training_samples, whole) == whole
\* The second split of dataset_split_samples takes training_samples.
ValidationSource(training_samples, whole) == training_samples

ValidationSpeakerSourceWhole(training_speakers, whole) == whole
\* The second split of dataset_split_samples_by_speaker takes training_speakers.
ValidationSpeakerSource(training_speakers, whole) == training_speakers

\* speakers = list(set(parse_speaker_id(sample[0]) for sample in samples))
SpeakersOf(xs) == ListOfSet({parse_speaker_id[xs[k][1]] : k \in 1..Len(xs)})

\* [sample for sample in samples if parse_speaker_id(sample[0]) in set(split_speakers)]
SamplesOfSpeakers(split_speakers) ==
    LET Keep(sample) == parse_speaker_id[sample[1]] \in Range(split_speakers)
    IN SelectSeq(samples, Keep)

NoSplit == [training |-> <<>>, validation |-> <<>>, test |-> <<>>]

SplitInit ==
    /\ split_fn \in {"dataset_split_samples", "dataset_split_samples_by_speaker"}
    /\ samples \in SeqsUpTo(Samples, MaxSamples)
    /\ IF split_fn = "dataset_split_samples_by_speaker"
       THEN parse_speaker_id \in [Names -> SpeakerIds]
       ELSE parse_speaker_id = [nm \in Names |-> "A"]
    /\ \E r \in Ratios : validation_ratio = r[1] /\ test_ratio = r[2]
    /\ training_part = <<>> /\ validation_part = <<>> /\ test_part = <<>>
    /\ split = NoSplit
    /\ split_pc = "call"

SplitIdle ==
    /\ split_fn = "none"
    /\ samples = <<>>
    /\ parse_speaker_id = [nm \in Names |-> "A"]
    /\ validation_ratio = 10 /\ test_ratio = 10
    /\ training_part = <<>> /\ validation_part = <<>> /\ test_part = <<>>
    /\ split = NoSplit
    /\ split_pc = "idle"

splitInputs == <<split_fn, samples, parse_speaker_id, validation_ratio, test_ratio>>

\* dataset_split_samples, lines 115-119.
SamplesSplitTest ==
    /\ split_fn = "dataset_split_samples" /\ split_pc = "call"
    /\ ~SplitRaises(Len(samples), test_ratio, 100)
    /\ \E perm \in Perms(Len(samples)) :
          LET r == TrainTestSplit(samples, test_ratio, 100, perm)
          IN training_part' = r.train /\ test_part' = r.test
    /\ split_pc' = "validation"
    /\ UNCHANGED <<splitInputs, validation_part, split, notSplit>>

SamplesSplitTestRaises ==
    /\ split_fn = "dataset_split_samples" /\ split_pc = "call"
    /\ SplitRaises(Len(samples), test_ratio, 100)
    /\ split_pc' = "ValueError"
    /\ UNCHANGED <<splitInputs, training_part, validation_part, test_part, split, notSplit>>

\* dataset_split_samples, lines 121-125.
SamplesSplitValidation ==
    /\ split_fn = "dataset_split_samples" /\ split_pc = "validation"
    /\ LET src == ValidationSource(training_part, samples)
       IN /\ ~SplitRaises(Len(src), validation_ratio, 100 - test_ratio)
          /\ \E perm \in Perms(Len(src)) :
                LET r == TrainTestSplit(src, validation_ratio, 100 - test_ratio, perm)
                IN training_part' = r.train /\ validation_part' = r.test
    /\ split_pc' = "built"
    /\ UNCHANGED <<splitInputs, test_part, split, notSplit>>

SamplesSplitValidationRaises ==
    /\ split_fn = "dataset_split_samples" /\ split_pc = "validation"
    /\ SplitRaises(Len(ValidationSource(training_part, samples)),
                   validation_ratio, 100 - test_ratio)
    /\ split_pc' = "ValueError"
    /\ UNCHANGED <<splitInputs, training_part, validation_part, test_part, split, notSplit>>

\* dataset_split_samples, lines 126-130.
SamplesReturn ==
    /\ split_fn = "dataset_split_samples" /\ split_pc = "built"
    /\ split' = [training |-> training_part, validation |-> validation_part,
                 test |-> test_part]
    /\ split_pc' = "return"
    /\ UNCHANGED <<splitInputs, training_part, validation_part, test_part, notSplit>>

\* dataset_split_samples_by_speaker, lines 138-143.
SpeakerSplitTest ==
    /\ split_fn = "dataset_split_samples_by_speaker" /\ split_pc = "call"
    /\ LET speakers == SpeakersOf(samples)
       IN /\ ~SplitRaises(Len(speakers), test_ratio, 100)
          /\ \E perm \in Perms(Len(speakers)) :
                LET r == TrainTestSplit(speakers, test_ratio, 100, perm)
                IN training_part' = r.train /\ test_part' = r.test
    /\ split_pc' = "validation"
    /\ UNCHANGED <<splitInputs, validation_part, split, notSplit>>

SpeakerSplitTestRaises ==
    /\ split_fn = "dataset_split_samples_by_speaker" /\ split_pc = "call"
    /\ SplitRaises(Len(SpeakersOf(samples)), test_ratio, 100)
    /\ split_pc' = "ValueError"
    /\ UNCHANGED <<splitInputs, training_part, validation_part, test_part, split, notSplit>>

\* dataset_split_samples_by_speaker, lines 144-148.
SpeakerSplitValidation ==
    /\ split_fn = "dataset_split_samples_by_speaker" /\ split_pc = "validation"
    /\ LET src == ValidationSpeakerSource(training_part, SpeakersOf(samples))
       IN /\ ~SplitRaises(Len(src), validation_ratio, 100 - test_ratio)
          /\ \E perm \in Perms(Len(src)) :
                LET r == TrainTestSplit(src, validation_ratio, 100 - test_ratio, perm)
                IN training_part' = r.train /\ validation_part' = r.test
    /\ split_pc' = "built"
    /\ UNCHANGED <<splitInputs, test_part, split, notSplit>>

SpeakerSplitValidationRaises ==
    /\ split_fn = "dataset_split_samples_by_speaker" /\ split_pc = "validation"
    /\ SplitRaises(Len(ValidationSpeakerSource(training_part, SpeakersOf(samples))),
                   validation_ratio, 100 - test_ratio)
    /\ split_pc' = "ValueError"
    /\ UNCHANGED <<splitInputs, training_part, validation_part, test_part, split, notSplit>>

\* dataset_split_samples_by_speaker, lines 149-156.
SpeakerReturn ==
    /\ split_fn = "dataset_split_samples_by_speaker" /\ split_pc = "built"
    /\ split' = [training   |-> SamplesOfSpeakers(training_part),
                 validation |-> SamplesOfSpeakers(validation_part),
                 test       |-> SamplesOfSpeakers(test_part)]
    /\ split_pc' = "return"
    /\ UNCHANGED <<splitInputs, training_part, validation_part, test_part, notSplit>>

SplitNext ==
    \/ SamplesSplitTest
    \/ SamplesSplitTestRaises
    \/ SamplesSplitValidation
    \/ SamplesSplitValidationRaises
    \/ SamplesReturn
    \/ SpeakerSplitTest
    \/ SpeakerSplitTestRaises
    \/ SpeakerSplitValidation
    \/ SpeakerSplitValidationRaises
    \/ SpeakerReturn

PartitionKeys == {"training", "validation", "test"}
SpeakersIn(xs) == {parse_speaker_id[xs[k][1]] : k \in 1..Len(xs)}

(* C1: in the result of dataset_split_samples_by_speaker no speaker id has
   samples in more than one of the three partitions. *)
C1_SpeakerDisjoint ==
    (split_fn = "dataset_split_samples_by_speaker" /\ split_pc = "return") =>
        \A k1, k2 \in PartitionKeys :
            k1 # k2 => SpeakersIn(split[k1]) \cap SpeakersIn(split[k2]) = {}

\* Three non-empty partitions, one of them with two different samples of one
\* speaker.
C1_Witness ==
    /\ split_fn = "dataset_split_samples_by_speaker" /\ split_pc = "return"
    /\ \A k \in PartitionKeys : split[k] # <<>>
    /\ \E k \in PartitionKeys : Cardinality(Range(split[k])) = 2

PairwiseDistinct(xs) == \A a, b \in 1..Len(xs) : a # b => xs[a] # xs[b]

(* C2: for pairwise distinct samples, no sample appears in two of the
   partitions returned by dataset_split_samples. *)
C2_SampleDisjoint ==
    (/\ split_fn = "dataset_split_samples" /\ split_pc = "return"
     /\ PairwiseDistinct(samples)) =>
        \A k1, k2 \in PartitionKeys :
            k1 # k2 => Range(split[k1]) \cap Range(split[k2]) = {}

\* Four distinct samples split into three non-empty partitions.
C2_Witness ==
    /\ split_fn = "dataset_split_samples" /\ split_pc = "return"
    /\ PairwiseDistinct(samples) /\ Len(samples) = 4
    /\ \A k \in PartitionKeys : split[k] # <<>>

(***************************************************************************)
(* speech_dataset_to_utterances: a generator.  wavfiles[f] is what         *)
(* system.read_wavfile (and, with apply_vad, system.remove_silence) gives  *)
(* for paths[f]: the signal and its native rate.  A sample is <<f, p>>,    *)
(* the p-th sample of file f, so that an utterance shows where its         *)
(* samples come from.                                                      *)
(***************************************************************************)
MaxFiles == 2
MaxWav == 3
Labels == {"en", "fi"}
Rates == {500, 1000}
LengthsMs == {1, 2}
OffsetsMs == {1, 2}

Signal(f, n) == [p \in 1..n |-> <<f, p>>]

WavFilesOfLen(m) ==
    {[f \in 1..m |-> [wav |-> Signal(f, ns[f]), rate |-> rs[f]]] :
        ns \in [1..m -> 0..MaxWav], rs \in [1..m -> Rates]}

Min(a, b) == IF a < b THEN a ELSE b
\* zip(labels, paths) stops with the shorter of the two.
NumFiles == Min(Len(labels), Len(wavfiles))

\* int(x * ms * 1e-3) for the rates and durations used here: the product
\* x * ms * 1e-3 is non-negative and int() truncates it.
MsToSamples(rate, ms) == (rate * ms) \div 1000
UtteranceBoundary(rate) == MsToSamples(rate, utterance_length_ms)
UtteranceOffset(rate) == MsToSamples(rate, utterance_offset_ms)

\* Python's w[a:b] for 0 <= a and 0 <= b.
PySlice(w, a, b) == SubSeq(w, a + 1, Min(b, Len(w)))

\* Yielding the whole signal instead of its first utterance_boundary samples.
WindowWhole(w, boundary) == w
\* wav[:utterance_boundary]
Window(w, boundary) == Take(w, boundary)

\* Also cutting an utterance from a signal of exactly utterance_boundary samples.
LongEnoughInclusive(size, boundary) == size >= boundary
\* while wav.size > utterance_boundary
LongEnough(size, boundary) == size > boundary

\* The signal the window slides over: with slide_over_all the partial
\* utterance left by the previous file of the same label comes first.
Merged(label, w) == IF slide_over_all THEN label_to_wav[label] \o w ELSE w

UttInputsInit ==
    /\ \E m \in 0..MaxFiles :
          /\ labels \in [1..m -> Labels]
          /\ wavfiles \in WavFilesOfLen(m)
    /\ utterance_length_ms \in LengthsMs
    /\ utterance_offset_ms \in OffsetsMs
    /\ slide_over_all \in BOOLEAN

GenStart ==
    /\ i = 0
    /\ wav = <<>>
    /\ label_to_wav = [l \in Range(labels) |-> <<>>]
    /\ yielded = <<>>

FtfStart == ftf_i = 0 /\ ftf_yielded = <<>>

UttInit ==
    /\ UttInputsInit
    /\ entry \in {"speech_dataset_to_utterances", "files_to_features"}
    /\ GenStart /\ FtfStart
    /\ utt_pc = IF entry = "speech_dataset_to_utterances" THEN "for" ELSE "idle"
    /\ ftf_pc = IF entry = "files_to_features" THEN "for" ELSE "idle"

UttIdle ==
    /\ entry = "none" /\ labels = <<>> /\ wavfiles = <<>>
    /\ utterance_length_ms = 0 /\ utterance_offset_ms = 0
    /\ slide_over_all = TRUE
    /\ GenStart /\ FtfStart
    /\ utt_pc = "idle" /\ ftf_pc = "idle"

\* Lines 38-49: the next file is read, merged with the waiting partial
\* utterance, and both asserts pass.
NextFile ==
    /\ utt_pc = "for" /\ i < NumFiles
    /\ LET f == wavfiles[i + 1]
       IN /\ UtteranceBoundary(f.rate) > 0 /\ UtteranceOffset(f.rate) > 0
          /\ wav' = Merged(labels[i + 1], f.wav)
    /\ i' = i + 1
    /\ utt_pc' = "while"
    /\ UNCHANGED <<uttInputs, label_to_wav, yielded, ftfVars, notUtt>>

\* Lines 38-49: one of the asserts on lines 48 and 49 fails.
NextFileAssertFails ==
    /\ utt_pc = "for" /\ i < NumFiles
    /\ LET f == wavfiles[i + 1]
       IN /\ ~(UtteranceBoundary(f.rate) > 0 /\ UtteranceOffset(f.rate) > 0)
          /\ wav' = Merged(labels[i + 1], f.wav)
    /\ i' = i + 1
    /\ utt_pc' = "AssertionError"
    /\ UNCHANGED <<uttInputs, label_to_wav, yielded, ftfVars, notUtt>>

\* Lines 51-55: one utterance is yielded and the window moves forward.
\* "file" records the file the generator was processing at the yield.
YieldUtterance ==
    /\ utt_pc = "while"
    /\ LET rate == wavfiles[i].rate
       IN /\ LongEnough(Len(wav), UtteranceBoundary(rate))
          /\ yielded' = Append(yielded,
                [label |-> labels[i],
                 wav   |-> Window(wav, UtteranceBoundary(rate)),
                 rate  |-> rate,
                 file  |-> i])
          /\ wav' = Drop(wav, UtteranceOffset(rate))
    /\ UNCHANGED <<uttInputs, i, label_to_wav, utt_pc, ftfVars, notUtt>>

\* Line 51: the signal is too short for another utterance.
ExitWhile ==
    /\ utt_pc = "while"
    /\ ~LongEnough(Len(wav), UtteranceBoundary(wavfiles[i].rate))
    /\ utt_pc' = "rest"
    /\ UNCHANGED <<uttInputs, i, wav, label_to_wav, yielded, ftfVars, notUtt>>

\* What label_to_wav[label] becomes once a file is done (lines 56-61).
Rest(w) == IF slide_over_all THEN w ELSE <<>>

\* Lines 56-61: the rest waits for the next file, or is dropped.
StoreRest ==
    /\ utt_pc = "rest"
    /\ label_to_wav' = [label_to_wav EXCEPT ![labels[i]] = Rest(wav)]
    /\ utt_pc' = "for"
    /\ UNCHANGED <<uttInputs, i, wav, yielded, ftfVars, notUtt>>

\* Line 38: no file is left and the generator is exhausted.
StopIteration ==
    /\ utt_pc = "for" /\ i = NumFiles
    /\ utt_pc' = "done"
    /\ UNCHANGED <<uttInputs, i, wav, label_to_wav, yielded, ftfVars, notUtt>>

(***************************************************************************)
(* files_to_features: a generator that runs speech_dataset_to_utterances   *)
(* on one file at a time.                                                  *)
(***************************************************************************)
\* The signature on line 31.
Parameters == <<"labels", "paths", "utterance_length_ms", "utterance_offset_ms",
                "apply_vad", "print_progress", "slide_over_all">>
WithDefault == {"slide_over_all"}
\* The call on lines 87-94: two positional arguments and these keywords.
NumPositional == 2
CallKeywords == {"utterance_length_ms", "utterance_offset_ms", "apply_vad",
                 "print_progress", "resample_to"}

\* Python's argument binding: every keyword names a parameter that no
\* positional argument has filled, and every parameter without a default
\* gets a value.  Otherwise the call raises TypeError.
Binds(params, defaults, npos, keywords) ==
    LET byPosition == {params[p] : p \in 1..Min(npos, Len(params))}
    IN /\ npos <= Len(params)
       /\ keywords \subseteq Range(params)
       /\ keywords \cap byPosition = {}
       /\ Range(params) \ defaults \subseteq byPosition \cup keywords

\* The utterances speech_dataset_to_utterances cuts from one signal w that
\* has nothing prepended (lines 51-55).
RECURSIVE UtterancesOf(_, _, _)
UtterancesOf(w, boundary, offset) ==
    IF LongEnough(Len(w), boundary)
    THEN <<Window(w, boundary)>> \o UtterancesOf(Drop(w, offset), boundary, offset)
    ELSE <<>>

\* Lines 86-108 for the next file.  The call on lines 87-94 binds its
\* arguments first.  Past it, every utterance has at least one frame and so
\* gives at least one feature sequence: the features of a file are
\* abstracted to the utterances they are extracted from.
FilesToFeaturesNext ==
    /\ ftf_pc = "for" /\ ftf_i < NumFiles
    /\ ftf_i' = ftf_i + 1
    /\ IF ~Binds(Parameters, WithDefault, NumPositional, CallKeywords)
       THEN ftf_pc' = "TypeError" /\ UNCHANGED ftf_yielded
       ELSE LET f == wavfiles[ftf_i + 1]
                boundary == UtteranceBoundary(f.rate)
                offset == UtteranceOffset(f.rate)
                features == UtterancesOf(f.wav, boundary, offset)
            IN IF ~(boundary > 0 /\ offset > 0)
               THEN ftf_pc' = "AssertionError" /\ UNCHANGED ftf_yielded
               ELSE /\ ftf_pc' = "for"
                    /\ ftf_yielded' =
                          IF features # <<>>
                          THEN Append(ftf_yielded,
                                      [path |-> ftf_i + 1, features |-> features,
                                       target |-> labels[ftf_i + 1]])
                          ELSE ftf_yielded
    /\ UNCHANGED <<uttInputs, genVars, notUtt>>

\* Line 86: no file is left.
FilesToFeaturesDone ==
    /\ ftf_pc = "for" /\ ftf_i = NumFiles
    /\ ftf_pc' = "done"
    /\ UNCHANGED <<uttInputs, genVars, ftf_i, ftf_yielded, notUtt>>

UttNext ==
    \/ NextFile
    \/ NextFileAssertFails
    \/ YieldUtterance
    \/ ExitWhile
    \/ StoreRest
    \/ StopIteration
    \/ FilesToFeaturesNext
    \/ FilesToFeaturesDone

(***************************************************************************)
(* Claims about speech_dataset_to_utterances and files_to_features.        *)
(***************************************************************************)
(* C5: every utterance yielded has exactly int(rate * utterance_length_ms *
   1e-3) samples, rate being that of the file processed at the yield, and is
   yielded with the label and the rate of that file. *)
C5_FixedLength ==
    \A n \in 1..Len(yielded) :
        LET y == yielded[n]
            f == wavfiles[y.file]
        IN /\ Len(y.wav) = (f.rate * utterance_length_ms) \div 1000
           /\ y.label = labels[y.file]
           /\ y.rate = f.rate

\* An utterance of the second file, cut at the second file's rate, although
\* it starts with a sample carried over from the first file.
C5_Witness ==
    /\ slide_over_all
    /\ Len(wavfiles) = 2 /\ wavfiles[1].rate # wavfiles[2].rate
    /\ \E n \in 1..Len(yielded) :
          yielded[n].file = 2 /\ yielded[n].wav[1][1] = 1

(* C6: with slide_over_all False the unconsumed tail of a file is kept and
   joined with the start of the next file of that label. *)
C6_TailJoinedWhenFalse ==
    [][~slide_over_all =>
          /\ (utt_pc = "rest" /\ utt_pc' = "for") =>
                 label_to_wav'[labels[i]] = wav
          /\ (utt_pc = "for" /\ utt_pc' = "while") =>
                 wav' = label_to_wav[labels[i']] \o wavfiles[i'].wav]_vars

\* The files of files_to_features that give at least one utterance.
RECURSIVE FilesWithUtterances(_)
FilesWithUtterances(m) ==
    IF m = 0 THEN <<>>
    ELSE LET before == FilesWithUtterances(m - 1)
         IN IF Len(wavfiles[m].wav) > (wavfiles[m].rate * utterance_length_ms) \div 1000
            THEN Append(before, m) ELSE before

(* C7: iterating files_to_features ends without an error, having yielded in
   input order exactly one triple for every file that gives at least one
   feature sequence. *)
C7_CompletesWithOneTriplePerFile ==
    (entry = "files_to_features" /\ ftf_pc # "for") =>
        /\ ftf_pc = "done"
        /\ [n \in 1..Len(ftf_yielded) |-> ftf_yielded[n].path]
               = FilesWithUtterances(NumFiles)
        /\ \A n \in 1..Len(ftf_yielded) :
               ftf_yielded[n].target = labels[ftf_yielded[n].path]

\* The utterances yielded so far while file f was being processed.
YieldedOf(f) == LET FromF(y) == y.file = f IN SelectSeq(yielded, FromF)

\* No partial utterance was prepended to the file being processed.
\* (label_to_wav[label] is only overwritten once the file is done.)
NoCarriedTail == ~slide_over_all \/ label_to_wav[labels[i]] = <<>>

(* C10: for a signal w of n samples with nothing carried over, B > 0 and
   O > 0, the utterances are w[k*O : k*O + B] for k = 0, 1, ... in this
   order, exactly for the k with n - k*O > B (none when n = B), and what is
   left afterwards is w[K*O :] for the first K with n - K*O <= B. *)
C10_Windows ==
    (entry = "speech_dataset_to_utterances" /\ utt_pc \in {"while", "rest"}
     /\ NoCarriedTail) =>
        LET w == wavfiles[i].wav
            n == Len(w)
            B == (wavfiles[i].rate * utterance_length_ms) \div 1000
            O == (wavfiles[i].rate * utterance_offset_ms) \div 1000
            Y == YieldedOf(i)
            m == Len(Y)
        IN /\ B > 0 /\ O > 0
           /\ \A j \in 0..(m - 1) :
                 /\ n - j * O > B
                 /\ Y[j + 1].wav = PySlice(w, j * O, j * O + B)
           /\ wav = PySlice(w, m * O, n)
           /\ utt_pc = "rest" =>
                 /\ n - m * O <= B
                 /\ m = Cardinality({j \in 0..n : n - j * O > B})
                 /\ n = B => m = 0

\* Two windows of one signal, and a remainder that is not empty.
C10_Witness ==
    /\ entry = "speech_dataset_to_utterances" /\ utt_pc = "rest"
    /\ NoCarriedTail
    /\ Len(YieldedOf(i)) = 2
    /\ wav # <<>>

(***************************************************************************)
(* Train.extract_features: which paths go to the feature extractor.        *)
(* utt2path_rows and utt2label_rows are the rows parse_space_separated     *)
(* yields for the two mapping files, cut to their first two fields.        *)
(***************************************************************************)
MaxMapRows == 2
UttIds == {"utt1", "utt2", "utt3"}
\* Labels found in utt2label; labels_set is the enabled part of them.
MappingLabels == {"en", "de"}
labels_set == {"en"}
\* args.file_limit; 0 stands for both falsy values, None and 0.
FileLimits == {-1, 0, 1, 2}

\* Every row of utt2path names a wav-file of its own.
PathRows == UNION {{[r \in 1..m |-> <<us[r], <<"wav", r>>>>] : us \in [1..m -> UttIds]} :
                   m \in 0..MaxMapRows}
LabelRows == SeqsUpTo(UttIds \X MappingLabels, MaxMapRows)

\* An OrderedDict is the sequence of its (key, value) items.
DictKeys(d) == [p \in 1..Len(d) |-> d[p][1]]
DictGet(d, key) == LET p == CHOOSE p \in 1..Len(d) : d[p][1] = key IN d[p][2]
\* d[key] = value: a new key goes last, a known key keeps its place.
DictSet(d, key, value) ==
    IF \E p \in 1..Len(d) : d[p][1] = key
    THEN [p \in 1..Len(d) |-> IF d[p][1] = key THEN <<key, value>> ELSE d[p]]
    ELSE Append(d, <<key, value>>)
\* collections.OrderedDict(rows)
RECURSIVE OrderedDictOf(_)
OrderedDictOf(rows) ==
    IF rows = <<>> THEN <<>>
    ELSE LET last == rows[Len(rows)]
         IN DictSet(OrderedDictOf(SubSeq(rows, 1, Len(rows) - 1)), last[1], last[2])

\* Requiring only that every id of utt2path has a label.
IdsMatchSubset(a, b) == Range(DictKeys(a)) \subseteq Range(DictKeys(b))
\* assert set(utt2path) == set(utt2label)
IdsMatch(a, b) == Range(DictKeys(a)) = Range(DictKeys(b))

\* Python's ks[:n], also for a negative n.
PyPrefix(ks, n) == IF n >= 0 THEN Take(ks, n)
                   ELSE Take(ks, IF Len(ks) + n > 0 THEN Len(ks) + n ELSE 0)
\* Keeping one utterance id too many.
LimitKeysOffByOne(ks, n) == PyPrefix(ks, n + 1)
\* keys = keys[:args.file_limit]
LimitKeys(ks, n) == PyPrefix(ks, n)

TrainInit ==
    /\ utt2path_rows \in PathRows
    /\ utt2label_rows \in LabelRows
    /\ file_limit \in FileLimits
    /\ shuffle_file_list \in BOOLEAN
    /\ utt2path = <<>> /\ utt2label = <<>>
    /\ order = <<>> /\ keys = <<>> /\ next_key = 0
    /\ paths = <<>> /\ paths_meta = <<>> /\ num_dropped = 0
    /\ train_pc = "read"

TrainIdle ==
    /\ utt2path_rows = <<>> /\ utt2label_rows = <<>>
    /\ file_limit = 0 /\ shuffle_file_list = FALSE
    /\ utt2path = <<>> /\ utt2label = <<>>
    /\ order = <<>> /\ keys = <<>> /\ next_key = 0
    /\ paths = <<>> /\ paths_meta = <<>> /\ num_dropped = 0
    /\ train_pc = "idle"

\* Lines 129-134.
ReadMappings ==
    /\ train_pc = "read"
    /\ utt2path' = OrderedDictOf(utt2path_rows)
    /\ utt2label' = OrderedDictOf(utt2label_rows)
    /\ train_pc' = "assert"
    /\ UNCHANGED <<trainInputs, order, keys, next_key, paths, paths_meta,
                   num_dropped, notTrain>>

\* Line 136: the assert fails.
AssertIdsFails ==
    /\ train_pc = "assert"
    /\ ~IdsMatch(utt2path, utt2label)
    /\ train_pc' = "AssertionError"
    /\ UNCHANGED <<trainInputs, utt2path, utt2label, order, keys, next_key, paths,
                   paths_meta, num_dropped, notTrain>>

\* Lines 136-139: the assert passes; keys = list(utt2path.keys()).
ListKeys ==
    /\ train_pc = "assert"
    /\ IdsMatch(utt2path, utt2label)
    /\ keys' = DictKeys(utt2path)
    /\ train_pc' = "shuffle"
    /\ UNCHANGED <<trainInputs, utt2path, utt2label, order, next_key, paths,
                   paths_meta, num_dropped, notTrain>>

\* Lines 140-143: random.shuffle(keys) leaves any permutation.  order
\* remembers the list of ids before it is cut.
ShuffleKeys ==
    /\ train_pc = "shuffle"
    /\ shuffle_file_list
    /\ \E perm \in Perms(Len(keys)) :
          keys' = [p \in 1..Len(keys) |-> keys[perm[p]]]
    /\ order' = keys'
    /\ train_pc' = "limit"
    /\ UNCHANGED <<trainInputs, utt2path, utt2label, next_key, paths, paths_meta,
                   num_dropped, notTrain>>

\* Line 140: --shuffle-file-list was not given.
KeepOrder ==
    /\ train_pc = "shuffle"
    /\ ~shuffle_file_list
    /\ order' = keys
    /\ train_pc' = "limit"
    /\ UNCHANGED <<trainInputs, utt2path, utt2label, keys, next_key, paths,
                   paths_meta, num_dropped, notTrain>>

\* Lines 144-147.
SliceKeys ==
    /\ train_pc = "limit"
    /\ file_limit # 0
    /\ keys' = LimitKeys(keys, file_limit)
    /\ next_key' = 1
    /\ train_pc' = "select"
    /\ UNCHANGED <<trainInputs, utt2path, utt2label, order, paths, paths_meta,
                   num_dropped, notTrain>>

\* Line 144: no file limit.
NoLimit ==
    /\ train_pc = "limit"
    /\ file_limit = 0
    /\ next_key' = 1
    /\ train_pc' = "select"
    /\ UNCHANGED <<trainInputs, utt2path, utt2label, order, keys, paths, paths_meta,
                   num_dropped, notTrain>>

\* Lines 150-156 for an utterance whose label is enabled.
SelectPath ==
    /\ train_pc = "select" /\ next_key <= Len(keys)
    /\ LET utt == keys[next_key]
           label == DictGet(utt2label, utt)
       IN /\ label \in labels_set
          /\ paths' = Append(paths, DictGet(utt2path, utt))
          /\ paths_meta' = Append(paths_meta, <<utt, label>>)
    /\ next_key' = next_key + 1
    /\ UNCHANGED <<trainInputs, utt2path, utt2label, order, keys, num_dropped,
                   train_pc, notTrain>>

\* Lines 150-154 for an utterance whose label is not enabled.
DropPath ==
    /\ train_pc = "select" /\ next_key <= Len(keys)
    /\ DictGet(utt2label, keys[next_key]) \notin labels_set
    /\ num_dropped' = num_dropped + 1
    /\ next_key' = next_key + 1
    /\ UNCHANGED <<trainInputs, utt2path, utt2label, order, keys, paths, paths_meta,
                   train_pc, notTrain>>

\* Lines 157-167: paths and paths_meta go to
\* tf_data.extract_features_from_paths.
StartExtraction ==
    /\ train_pc = "select" /\ next_key > Len(keys)
    /\ train_pc' = "extract"
    /\ UNCHANGED <<trainInputs, utt2path, utt2label, order, keys, next_key, paths,
                   paths_meta, num_dropped, notTrain>>

TrainNext ==
    \/ ReadMappings
    \/ AssertIdsFails
    \/ ListKeys
    \/ ShuffleKeys
    \/ KeepOrder
    \/ SliceKeys
    \/ NoLimit
    \/ SelectPath
    \/ DropPath
    \/ StartExtraction

\* The ids a mapping file mentions, and the value its last row for an id
\* gives, read off the rows themselves.
IdsOf(rows) == {rows[r][1] : r \in 1..Len(rows)}
LastValue(rows, utt) ==
    LET r == CHOOSE r \in 1..Len(rows) :
                 /\ rows[r][1] = utt
                 /\ \A q \in (r + 1)..Len(rows) : rows[q][1] # utt
    IN rows[r][2]

(* C8: with a file limit N > 0 the paths handed to the feature extractor
   are at most N, each is the path of one of the first N utterance ids of
   the (possibly shuffled) utt2path order, that order being a permutation of
   the ids of utt2path, and each has an enabled label. *)
C8_FileLimit ==
    (file_limit > 0 /\ train_pc \in {"select", "extract"}) =>
        /\ Len(paths) <= file_limit
        /\ Range(order) = IdsOf(utt2path_rows)
        /\ Len(order) = Cardinality(IdsOf(utt2path_rows))
        /\ ~shuffle_file_list => order = DictKeys(utt2path)
        /\ \A p \in 1..Len(paths) :
              \E j \in 1..Min(file_limit, Len(order)) :
                  /\ paths[p] = LastValue(utt2path_rows, order[j])
                  /\ LastValue(utt2label_rows, order[j]) \in labels_set

\* Two ids, both enabled, a limit of one: one path is handed over.
C8_Witness ==
    /\ train_pc = "extract" /\ file_limit = 1
    /\ Len(order) = 2 /\ Len(paths) = 1
    /\ \A r \in 1..Len(utt2label_rows) : utt2label_rows[r][2] \in labels_set

(* C9: when the two mapping files do not name the same utterance ids,
   extract_features stops at the assertion, with no path selected and no
   extraction started; when they do, it passes the assertion and every
   selected path stands at the position of the (id, label) entry of its own
   utterance id. *)
C9_IdsInBothFiles ==
    (train_pc \notin {"idle", "read", "assert"}) =>
        IF IdsOf(utt2path_rows) # IdsOf(utt2label_rows)
        THEN /\ train_pc = "AssertionError"
             /\ keys = <<>> /\ paths = <<>> /\ paths_meta = <<>>
        ELSE /\ train_pc # "AssertionError"
             /\ Len(paths) = Len(paths_meta)
             /\ \A p \in 1..Len(paths) :
                   LET utt == paths_meta[p][1]
                   IN /\ utt \in IdsOf(utt2path_rows)
                      /\ paths_meta[p][2] = LastValue(utt2label_rows, utt)
                      /\ paths[p] = LastValue(utt2path_rows, utt)

\* Two selected paths, in shuffled order.
C9_Witness ==
    /\ train_pc = "extract"
    /\ Len(paths) = 2
    /\ DictKeys(utt2path) # order

(***************************************************************************)
(* Specifications: one function at a time, the others idle.                *)
(***************************************************************************)
InitSeq == SeqInit /\ SplitIdle /\ UttIdle /\ TrainIdle
SpecSeq == InitSeq /\ [][SeqNext]_vars

InitSplit == SplitInit /\ SeqIdle /\ UttIdle /\ TrainIdle
SpecSplit == InitSplit /\ [][SplitNext]_vars

InitUtt == UttInit /\ SeqIdle /\ SplitIdle /\ TrainIdle
SpecUtt == InitUtt /\ [][UttNext]_vars

InitTrain == TrainInit /\ SeqIdle /\ SplitIdle /\ UttIdle
SpecTrain == InitTrain /\ [][TrainNext]_vars

====
